---- MODULE Spec2Model ----
(***************************************************************************)
(* Model of the element-action executor of rap-demo.                        *)
(*                                                                          *)
(*   src/unnamed/part_001  findAndPerformAction, generateActionByType,      *)
(*                         findAndPerformActionByType, wait, withRetry,     *)
(*                         performActionByConfig, performActionsByConfigs   *)
(*                                                                          *)
(* JavaScript runs the code on one thread.  performActionsByConfigs maps    *)
(* performActionByConfig over the configs synchronously: each call runs up  *)
(* to its first suspension (the timer of wait(), or the await of the first  *)
(* attempt) before the next call starts.  After Promise.all has been        *)
(* called the suspended calls resume one at a time; the model lets them     *)
(* resume in any order, which covers every completion order the host's      *)
(* timers and job queue can produce.                                        *)
(*                                                                          *)
(* The host environment decides, at every attempt, what                     *)
(* document.querySelector returns and whether the primitive throws; the     *)
(* model draws that decision from EnvOutcomes.                              *)
(***************************************************************************)
EXTENDS Integers, Sequences, FiniteSets, TLC

\* ---------------------------------------------------------------- bounds
MaxRetries == 2
MaxBatch == 2
\* handlers registered on document per event type
MaxListeners == 2
\* configs in recordedConfig
MaxRecorded == 3

\* ------------------------------------------------------------ data model
\* ElementActionType
SupportedTypes == {"click", "input", "focus", "readText"}
\* a type outside the enumeration
UnsupportedType == "hover"
Types == SupportedTypes \cup {UnsupportedType}

Selectors == {"#a", "#b"}
\* "" is the default of the value parameter
Values == {"", "x"}
\* the value every element holds before the batch runs
InitialValue == "old"
\* 0 is the default of waitBefore
WaitBeforeValues == {0, 200}
\* onError: absent, a function that returns, a function that throws
Observers == {"none", "returns", "raises"}

\* ElementConfig
ElementConfig ==
  [selector : Selectors, type : Types, value : Values,
   waitBefore : WaitBeforeValues, retries : 0..MaxRetries, onError : Observers]

\* the configs drawn for batches of two or more entries
BatchConfigs ==
  { [selector |-> "#a", type |-> "input", value |-> "x",
     waitBefore |-> 0, retries |-> 1, onError |-> "none"],
    [selector |-> "#a", type |-> "input", value |-> "",
     waitBefore |-> 0, retries |-> 0, onError |-> "returns"],
    [selector |-> "#b", type |-> "click", value |-> "",
     waitBefore |-> 200, retries |-> 1, onError |-> "returns"],
    [selector |-> "#a", type |-> UnsupportedType, value |-> "",
     waitBefore |-> 0, retries |-> 1, onError |-> "raises"],
    [selector |-> "#b", type |-> UnsupportedType, value |-> "",
     waitBefore |-> 200, retries |-> 0, onError |-> "none"],
    [selector |-> "#b", type |-> "readText", value |-> "",
     waitBefore |-> 200, retries |-> 0, onError |-> "raises"],
    [selector |-> "#a", type |-> "click", value |-> "",
     waitBefore |-> 0, retries |-> 1, onError |-> "raises"],
    [selector |-> "#b", type |-> "focus", value |-> "",
     waitBefore |-> 0, retries |-> 0, onError |-> "none"] }

SeqsOf(S, n) == UNION { [1..m -> S] : m \in 0..n }

\* the argument of performActionsByConfigs
Batches ==
  { <<c>> : c \in ElementConfig } \cup SeqsOf(BatchConfigs, MaxBatch)

\* the events startRecording listens to
EventTypes == {"click", "input", "focus"}
\* the waitBefore and retries the recorder writes into every config
RecordedWaitBefore == 200
RecordedRetries == 2
\* a recorded config without a value key
NoValue == "undefined"
\* the selector of an element id
IdSelector == [a |-> "#a", b |-> "#b"]
\* event.target: an input with id "a", a button with id "b", an element
\* without id
Targets == { [id |-> "a", value |-> "x"], [id |-> "b", value |-> ""],
             [id |-> "", value |-> ""] }

\* what the host does at one attempt: querySelector returns null; the element
\* is found and the primitive throws; the element is found and the primitive
\* completes
EnvOutcomes == {"notfound", "fault", "ok"}

VARIABLES
  configs,    \* the argument of performActionsByConfigs
  dom,        \* value of the element each selector names
  mapIndex,   \* number of configs configs.map has called back for
  tasks,      \* one performActionByConfig call per config
  values,     \* Promise.all: the values array
  remaining,  \* Promise.all: remaining elements counter
  batch,      \* state of the promise performActionsByConfigs returns
  results,    \* the array that promise is fulfilled with
  recorder,   \* the fields of a VisualRecorder and its listeners on document
  session     \* history of the recorder: recording, clicks since the start

engineVars ==
  <<configs, dom, mapIndex, tasks, values, remaining, batch, results>>
recVars == <<recorder, session>>
vars == <<configs, dom, mapIndex, tasks, values, remaining, batch, results,
          recorder, session>>

\* new VisualRecorder()
NewRecorder ==
  [recordedConfig |-> <<>>,
   eventListeners |-> {},    \* keys of this.eventListeners
   isFirstClick |-> TRUE,
   listeners |-> [e \in EventTypes |-> 0]]
                             \* handlers registered on document

\* no startRecording, stopRecording or click yet
NewSession == [recording |-> FALSE, clicks |-> 0, stopped |-> FALSE]

Min(a, b) == IF a < b THEN a ELSE b

N == Len(configs)

\* a performActionByConfig call that has not started
NewTask ==
  [pc |-> "idle",       \* idle, waiting, awaiting, fulfilled, rejected
   i |-> 0,             \* withRetry: loop variable
   pending |-> "none",  \* settlement of the promise action() returned
   thrown |-> [type |-> "none", attempt |-> 0],
                        \* the error that promise is rejected with
   result |-> FALSE,    \* value the call's promise is fulfilled with
   delays |-> 0,        \* calls of wait
   elapsed |-> 0,       \* timers of wait that have fired
   builds |-> 0,        \* calls of generateActionByType
   resolves |-> 0,      \* calls of document.querySelector
   applies |-> 0,       \* calls of action(element)
   logged |-> 0,        \* calls of console.error in findAndPerformAction
   observed |-> <<>>,   \* arguments onError was called with
   envLog |-> <<>>,     \* what the host did at each attempt that reached it
   joined |-> FALSE]    \* Promise.all has seen the settlement

\* the Error thrown by generateActionByType during loop iteration i
UnsupportedError(i) == [type |-> "UnsupportedOperation", attempt |-> i + 1]
\* the error a primitive throws during loop iteration i
Fault(i) == [type |-> "Fault", attempt |-> i + 1]

\* -------------------------------------------------------------- functions
\* generateActionByType with a default branch that returns a no-op
generateActionByType_NoOp(type, value) ==
  [threw |-> FALSE,
   prim |-> IF type \in SupportedTypes THEN type ELSE "none",
   value |-> value]

\* generateActionByType: the switch over type
generateActionByType(type, value) ==
  IF type \in SupportedTypes
    THEN [threw |-> FALSE, prim |-> type, value |-> value]
    ELSE [threw |-> TRUE, prim |-> "none", value |-> value]

\* generateActionByType whose readText closure assigns el.value
ApplyAction_ReadTextAssigns(action, d, selector) ==
  IF action.prim \in {"input", "readText"}
    THEN [d EXCEPT ![selector] = action.value]
    ELSE d

\* the closures generateActionByType returns, applied to the element
ApplyAction(action, d, selector) ==
  IF action.prim = "input" THEN [d EXCEPT ![selector] = action.value] ELSE d

\* findAndPerformAction returning true from its catch block
FindResult_FaultIsTrue(env) == env # "notfound"

\* findAndPerformAction returning true when no element was found
FindResult_NotFoundIsTrue(env) == env # "fault"

\* findAndPerformAction: the boolean it returns
FindResult(env) == env = "ok"

\* findAndPerformAction with a catch block that rethrows the error
findAndPerformAction_Rethrows(t, env) ==
  [t EXCEPT !.resolves = @ + 1,
            !.applies = IF env = "notfound" THEN @ ELSE @ + 1,
            !.logged = IF env = "fault" THEN @ + 1 ELSE @,
            !.envLog = Append(@, env),
            !.pending = IF env = "fault" THEN "throw"
                        ELSE IF FindResult(env) THEN "true" ELSE "false",
            !.thrown = IF env = "fault" THEN Fault(t.i) ELSE @]

\* findAndPerformAction
findAndPerformAction(t, env) ==
  [t EXCEPT !.resolves = @ + 1,
            !.applies = IF env = "notfound" THEN @ ELSE @ + 1,
            !.logged = IF env = "fault" THEN @ + 1 ELSE @,
            !.envLog = Append(@, env),
            !.pending = IF FindResult(env) THEN "true" ELSE "false"]

\* findAndPerformActionByType
findAndPerformActionByType(t, cfg, env) ==
  LET action == generateActionByType(cfg.type, cfg.value)
      called == [t EXCEPT !.builds = @ + 1]
  IN  IF action.threw
        THEN [called EXCEPT !.pending = "throw",
                            !.thrown = UnsupportedError(t.i)]
        ELSE findAndPerformAction(called, env)

\* the element tree after findAndPerformActionByType
DomAfter(d, cfg, env) ==
  LET action == generateActionByType(cfg.type, cfg.value)
  IN  IF ~action.threw /\ env = "ok"
        THEN ApplyAction(action, d, cfg.selector)
        ELSE d

\* withRetry without the return on success
AttemptSucceeded_Never(pending) == FALSE

\* withRetry: the test of the awaited result
AttemptSucceeded(pending) == pending = "true"

\* withRetry looping while i < retries
LoopContinues_OffByOne(i, retries) == i < retries

\* withRetry: the loop condition
LoopContinues(i, retries) == i <= retries

\* withRetry: the loop from iteration i up to its next suspension
EnterLoop(t, cfg, i, env) ==
  IF LoopContinues(i, cfg.retries)
    THEN [findAndPerformActionByType([t EXCEPT !.i = i], cfg, env)
            EXCEPT !.pc = "awaiting"]
    ELSE [t EXCEPT !.i = i, !.pc = "fulfilled", !.result = FALSE]

\* the element tree after EnterLoop
DomAfterLoop(d, cfg, i, env) ==
  IF LoopContinues(i, cfg.retries) THEN DomAfter(d, cfg, env) ELSE d

\* performActionByConfig that never waits
ShouldWait_Never(waitBefore) == FALSE

\* performActionByConfig: the test before wait
ShouldWait(waitBefore) == waitBefore > 0

\* Array.prototype.map calling back in descending index order
MapPosition_Reversed(idx, n) == n - idx

\* Array.prototype.map: the index of the callback after idx callbacks
MapPosition(idx, n) == idx + 1

\* Promise.all: store the value of element k
PromiseAllStore(vals, k, v, rem) == [vals EXCEPT ![k] = v]

\* ----------------------------------------------------------------- state
Init ==
  /\ configs \in Batches
  /\ dom = [s \in Selectors |-> InitialValue]
  /\ mapIndex = 0
  /\ tasks = [k \in 1..Len(configs) |-> NewTask]
  /\ values = [k \in 1..Len(configs) |-> "empty"]
  /\ remaining = Len(configs)
  /\ batch = "mapping"
  /\ results = <<>>
  /\ recorder = NewRecorder
  /\ session = NewSession

\* a page with a recorder and no batch
RecInit ==
  /\ configs = <<>>
  /\ dom = [s \in Selectors |-> InitialValue]
  /\ mapIndex = 0
  /\ tasks = <<>>
  /\ values = <<>>
  /\ remaining = 0
  /\ batch = "mapping"
  /\ results = <<>>
  /\ recorder = NewRecorder
  /\ session = NewSession

\* configs.map calls performActionByConfig(configs[k]), which runs up to its
\* first suspension
Dispatch ==
  /\ batch = "mapping"
  /\ mapIndex < N
  /\ LET k == MapPosition(mapIndex, N)
         cfg == configs[k]
     IN  /\ mapIndex' = mapIndex + 1
         /\ IF ShouldWait(cfg.waitBefore)
              THEN /\ tasks' = [tasks EXCEPT ![k].pc = "waiting",
                                             ![k].delays = @ + 1]
                   /\ dom' = dom
              ELSE \E env \in EnvOutcomes :
                     /\ tasks' = [tasks EXCEPT
                                    ![k] = EnterLoop(@, cfg, 0, env)]
                     /\ dom' = DomAfterLoop(dom, cfg, 0, env)
  /\ UNCHANGED <<configs, values, remaining, batch, results>>
  /\ UNCHANGED recVars

\* Promise.all is called with the promises map returned
PromiseAll ==
  /\ batch = "mapping"
  /\ mapIndex = N
  /\ IF N = 0
       THEN batch' = "fulfilled" /\ results' = values
       ELSE batch' = "pending" /\ results' = results
  /\ UNCHANGED <<configs, dom, mapIndex, tasks, values, remaining>>
  /\ UNCHANGED recVars

\* the timer of wait() fires and performActionByConfig calls withRetry
TimerFire(k) ==
  /\ batch # "mapping"
  /\ tasks[k].pc = "waiting"
  /\ \E env \in EnvOutcomes :
       /\ tasks' = [tasks EXCEPT
                      ![k] = EnterLoop([@ EXCEPT !.elapsed = @ + 1],
                                       configs[k], 0, env)]
       /\ dom' = DomAfterLoop(dom, configs[k], 0, env)
  /\ UNCHANGED <<configs, mapIndex, values, remaining, batch, results>>
  /\ UNCHANGED recVars

\* withRetry resumes after await action()
Resume(k) ==
  /\ batch # "mapping"
  /\ tasks[k].pc = "awaiting"
  /\ LET t == tasks[k]
         cfg == configs[k]
         \* catch (error): lastError = error; if (onError) onError(error)
         seen == IF cfg.onError = "none"
                   THEN t
                   ELSE [t EXCEPT !.observed = Append(@, t.thrown)]
     IN  IF AttemptSucceeded(t.pending)
           THEN /\ tasks' = [tasks EXCEPT ![k].pc = "fulfilled",
                                          ![k].result = TRUE]
                /\ dom' = dom
           ELSE IF t.pending = "throw" /\ cfg.onError = "raises"
             THEN /\ tasks' = [tasks EXCEPT
                                 ![k] = [seen EXCEPT !.pc = "rejected"]]
                  /\ dom' = dom
             ELSE \E env \in EnvOutcomes :
                    LET u == IF t.pending = "throw" THEN seen ELSE t
                    IN  /\ tasks' = [tasks EXCEPT
                                       ![k] = EnterLoop(u, cfg, t.i + 1, env)]
                        /\ dom' = DomAfterLoop(dom, cfg, t.i + 1, env)
  /\ UNCHANGED <<configs, mapIndex, values, remaining, batch, results>>
  /\ UNCHANGED recVars

\* Promise.all reacts to the settlement of element k
Settle(k) ==
  /\ batch # "mapping"
  /\ tasks[k].pc \in {"fulfilled", "rejected"}
  /\ ~tasks[k].joined
  /\ tasks' = [tasks EXCEPT ![k].joined = TRUE]
  /\ IF tasks[k].pc = "fulfilled"
       THEN /\ values' = PromiseAllStore(values, k, tasks[k].result, remaining)
            /\ remaining' = remaining - 1
            /\ IF remaining' = 0 /\ batch = "pending"
                 THEN batch' = "fulfilled" /\ results' = values'
                 ELSE UNCHANGED <<batch, results>>
       ELSE /\ UNCHANGED <<values, remaining, results>>
            /\ batch' = IF batch = "pending" THEN "rejected" ELSE batch
  /\ UNCHANGED <<configs, dom, mapIndex>>
  /\ UNCHANGED recVars

Next ==
  \/ Dispatch
  \/ PromiseAll
  \/ \E k \in 1..N : TimerFire(k)
  \/ \E k \in 1..N : Resume(k)
  \/ \E k \in 1..N : Settle(k)

Spec == Init /\ [][Next]_vars

\* the host runs every ready job and fires every timer
FairSpec == Spec /\ WF_vars(Next)

\* ------------------------------------------------------------- recorder
\* src/unnamed/part_000: class VisualRecorder.  Every handler the recorder
\* registers on document is bound to the same recorder, so the listeners of
\* one event type differ only in number.

\* _getElementSelector
getElementSelector(element) ==
  IF element.id # "" THEN IdSelector[element.id] ELSE ""

\* _handleFocus recording retries: 0
FocusConfig_NoRetries(selector) ==
  [selector |-> selector, type |-> "focus", value |-> NoValue,
   waitBefore |-> RecordedWaitBefore, retries |-> 0, onError |-> "returns"]

\* _handleClick: the config it records
ClickConfig(selector) ==
  [selector |-> selector, type |-> "click", value |-> NoValue,
   waitBefore |-> RecordedWaitBefore, retries |-> RecordedRetries,
   onError |-> "returns"]

\* _handleInput: the config it records
InputConfig(selector, value) ==
  [selector |-> selector, type |-> "input", value |-> value,
   waitBefore |-> RecordedWaitBefore, retries |-> RecordedRetries,
   onError |-> "returns"]

\* _handleFocus: the config it records
FocusConfig(selector) ==
  [selector |-> selector, type |-> "focus", value |-> NoValue,
   waitBefore |-> RecordedWaitBefore, retries |-> RecordedRetries,
   onError |-> "returns"]

\* _handleClick
handleClick(r, target) ==
  IF r.isFirstClick
    THEN [r EXCEPT !.isFirstClick = FALSE]
    ELSE [r EXCEPT !.recordedConfig =
            Append(@, ClickConfig(getElementSelector(target)))]

\* _handleInput
handleInput(r, target) ==
  [r EXCEPT !.recordedConfig =
     Append(@, InputConfig(getElementSelector(target), target.value))]

\* _handleFocus
handleFocus(r, target) ==
  [r EXCEPT !.recordedConfig =
     Append(@, FocusConfig(getElementSelector(target)))]

\* the handler startRecording registers for an event type
Handle(r, eventType, target) ==
  CASE eventType = "click" -> handleClick(r, target)
    [] eventType = "input" -> handleInput(r, target)
    [] eventType = "focus" -> handleFocus(r, target)

\* document calls the n listeners registered for the event type in turn
RECURSIVE CallListeners(_, _, _, _)
CallListeners(r, eventType, target, n) ==
  IF n = 0
    THEN r
    ELSE CallListeners(Handle(r, eventType, target), eventType, target, n - 1)

\* getRecordedConfig
getRecordedConfig == recorder.recordedConfig

\* startRecording
StartRecording ==
  /\ \A e \in EventTypes : recorder.listeners[e] < MaxListeners
  /\ recorder' = [recorder EXCEPT
                    !.listeners = [e \in EventTypes |-> @[e] + 1],
                    !.eventListeners = EventTypes]
  /\ session' = [session EXCEPT !.recording = TRUE, !.clicks = 0]
  /\ UNCHANGED engineVars

\* stopRecording
StopRecording ==
  /\ recorder' = [recorder EXCEPT
                    !.listeners =
                      [e \in EventTypes |->
                         IF e \in recorder.eventListeners
                           THEN @[e] - 1 ELSE @[e]],
                    !.eventListeners = {}]
  /\ session' = [session EXCEPT !.recording = FALSE, !.stopped = TRUE]
  /\ UNCHANGED engineVars

\* a click, input or focus event on target reaches document
DispatchEvent(eventType, target) ==
  /\ Len(recorder.recordedConfig) + recorder.listeners[eventType]
       <= MaxRecorded
  /\ recorder' = CallListeners(recorder, eventType, target,
                               recorder.listeners[eventType])
  /\ session' = IF eventType = "click" /\ session.recording
                  THEN [session EXCEPT !.clicks = Min(@ + 1, 2)]
                  ELSE session
  /\ UNCHANGED engineVars

RecNext ==
  \/ StartRecording
  \/ StopRecording
  \/ \E e \in EventTypes : \E target \in Targets : DispatchEvent(e, target)

RecSpec == RecInit /\ [][RecNext]_vars

\* ---------------------------------------------------------------- claims
Done(k) == tasks[k].pc \in {"fulfilled", "rejected"}
Supported(k) == configs[k].type \in SupportedTypes
\* every attempt of task k that reached the host had outcome o
AllAttempts(k, o) == \A j \in DOMAIN tasks[k].envLog : tasks[k].envLog[j] = o
AllJoined == batch # "mapping" /\ \A k \in 1..N : tasks[k].joined

\* C1: for every batch and every completion order, performActionsByConfigs
\* returns a sequence of exactly n booleans whose i-th element is the outcome
\* of performActionByConfig on the i-th config.
C1_ResultsAligned ==
  AllJoined =>
    /\ batch = "fulfilled"
    /\ DOMAIN results = 1..N
    /\ \A k \in 1..N : results[k] = tasks[k].result

\* C2: for a config with a supported type, the outcome of
\* performActionByConfig is true iff on some attempt numbered at most
\* retries+1 the element was found and the action completed without
\* throwing; otherwise the outcome is false.
C2_OutcomeIffSomeAttemptSucceeded ==
  \A k \in 1..N :
    (Supported(k) /\ Done(k)) =>
      /\ tasks[k].pc = "fulfilled"
      /\ tasks[k].result =
           (\E j \in DOMAIN tasks[k].envLog :
              j <= configs[k].retries + 1 /\ tasks[k].envLog[j] = "ok")

C2_Witness ==
  \E k \in 1..N :
    /\ Supported(k) /\ Done(k)
    /\ tasks[k].result = TRUE
    /\ Len(tasks[k].envLog) >= 2

\* C3: with retries = N, the element always found and the primitive throwing
\* on every attempt, the primitive is called exactly N+1 times and the final
\* result is false.
C3_AlwaysFaultingRunsAllAttempts ==
  \A k \in 1..N :
    (Supported(k) /\ Done(k) /\ AllAttempts(k, "fault")) =>
      /\ tasks[k].applies = configs[k].retries + 1
      /\ tasks[k].pc = "fulfilled"
      /\ tasks[k].result = FALSE

C3_Witness ==
  \E k \in 1..N :
    /\ Supported(k) /\ Done(k) /\ AllAttempts(k, "fault")
    /\ configs[k].retries >= 1
    /\ tasks[k].applies >= 2

\* C4: with retries = N, an onError observer and a primitive that throws on
\* every attempt, the observer is called exactly N+1 times, once per failed
\* attempt in attempt order, each time with that attempt's fault.
C4_ObserverSeesEveryFault ==
  \A k \in 1..N :
    (Supported(k) /\ Done(k) /\ AllAttempts(k, "fault")
       /\ configs[k].onError # "none") =>
      tasks[k].observed = [j \in 1..(configs[k].retries + 1) |-> Fault(j - 1)]

\* C5: if the attempts fail (not found or fault) until attempt k and attempt
\* k succeeds, 1 <= k <= retries+1, then exactly k attempts are made, the
\* result is true, and no attempt follows the first successful one.
C5_StopsAtFirstSuccess ==
  \A k \in 1..N :
    \A j \in DOMAIN tasks[k].envLog :
      tasks[k].envLog[j] = "ok" =>
        /\ j <= configs[k].retries + 1
        /\ Len(tasks[k].envLog) = j
        /\ tasks[k].builds = j
        /\ tasks[k].resolves = j
        /\ tasks[k].applies =
             Cardinality({m \in 1..j : tasks[k].envLog[m] # "notfound"})
        /\ tasks[k].pc \in {"awaiting", "fulfilled"}
        /\ tasks[k].pc = "awaiting" => tasks[k].pending = "true"
        /\ tasks[k].pc = "fulfilled" => tasks[k].result = TRUE

C5_Witness ==
  \E k \in 1..N :
    /\ Len(tasks[k].envLog) >= 2
    /\ tasks[k].envLog[Len(tasks[k].envLog)] = "ok"
    /\ Len(tasks[k].envLog) <= configs[k].retries
    /\ tasks[k].pc = "fulfilled"

\* C6: for a config with a supported type whose selector matches no element
\* on any attempt, every attempt yields false, the final result is false, no
\* primitive is applied and onError is never called.
C6_NeverFoundIsFalse ==
  \A k \in 1..N :
    (Supported(k) /\ AllAttempts(k, "notfound")) =>
      /\ tasks[k].applies = 0
      /\ tasks[k].observed = <<>>
      /\ tasks[k].pc = "awaiting" => tasks[k].pending = "false"
      /\ Done(k) =>
           /\ tasks[k].pc = "fulfilled"
           /\ tasks[k].result = FALSE
           /\ tasks[k].resolves = configs[k].retries + 1

C6_Witness ==
  \E k \in 1..N :
    /\ Supported(k) /\ Done(k) /\ AllAttempts(k, "notfound")
    /\ Len(tasks[k].envLog) >= 2
    /\ configs[k].onError # "none"

\* C7: for a config with waitBefore > 0 and any retries, the delay is waited
\* exactly once, it has elapsed before the first attempt starts, and no delay
\* occurs between retry attempts.
C7_DelayOnceBeforeFirstAttempt ==
  \A k \in 1..N :
    configs[k].waitBefore > 0 =>
      /\ tasks[k].pc # "idle" => tasks[k].delays = 1
      /\ tasks[k].elapsed <= tasks[k].delays
      /\ tasks[k].pc = "waiting" =>
           tasks[k].elapsed = 0 /\ tasks[k].builds = 0
      /\ tasks[k].builds > 0 =>
           tasks[k].delays = 1 /\ tasks[k].elapsed = 1

C7_Witness ==
  \E k \in 1..N :
    /\ configs[k].waitBefore > 0
    /\ Done(k)
    /\ tasks[k].builds >= 2
    /\ tasks[k].delays = 1

\* C8: for every config whose type is not click, input, focus or readText,
\* generateActionByType throws, and running the config never resolves the
\* selector and never applies a primitive, whatever retries is.
C8_UnsupportedNeverTouchesElement ==
  \A k \in 1..N :
    ~Supported(k) =>
      /\ generateActionByType(configs[k].type, configs[k].value).threw
      /\ tasks[k].resolves = 0
      /\ tasks[k].applies = 0
      /\ tasks[k].envLog = <<>>
      /\ tasks[k].pc = "awaiting" => tasks[k].pending = "throw"
      /\ N = 1 => dom = [s \in Selectors |-> InitialValue]

C8_Witness ==
  \E k \in 1..N :
    /\ ~Supported(k) /\ Done(k)
    /\ configs[k].retries >= 1
    /\ tasks[k].builds >= 2

\* C9: a config with an unsupported type and retries = N >= 1 is aborted at
\* the first failure to build the action: the build is attempted exactly once
\* and the retry loop makes no further attempt.
C9_UnsupportedBuiltOnce ==
  \A k \in 1..N :
    (~Supported(k) /\ configs[k].retries >= 1) => tasks[k].builds <= 1

\* C10: for every batch, including configs with an unsupported type,
\* primitives that throw and an onError that itself throws,
\* performActionsByConfigs completes with a sequence of booleans and never
\* rejects as a whole; a config's total failure is false in its own slot.
C10_BatchNeverRejects ==
  /\ batch # "rejected"
  /\ \A k \in 1..N : tasks[k].pc # "rejected"
\* C11: the caller of performActionsByConfigs observes an outcome (a result
\* sequence or an error) only after every config of the batch has finished
\* its retry loop; no outcome is observable while a delay or an attempt is
\* still pending.
C11_OutcomeOnlyAfterAllFinished ==
  batch \in {"fulfilled", "rejected"} => \A k \in 1..N : Done(k)

\* C12: findAndPerformAction never throws: it returns false when the selector
\* matches nothing, false when the action throws (the error is caught and not
\* rethrown) and true otherwise, so neither withRetry nor onError ever
\* receives an error thrown by a primitive.
C12_FaultsStayInFindAndPerformAction ==
  \A k \in 1..N :
    /\ tasks[k].thrown.type # "Fault"
    /\ \A j \in DOMAIN tasks[k].observed : tasks[k].observed[j].type # "Fault"
    /\ tasks[k].logged =
         Cardinality({j \in DOMAIN tasks[k].envLog :
                        tasks[k].envLog[j] = "fault"})
    /\ Supported(k) =>
         /\ tasks[k].pc # "rejected"
         /\ tasks[k].observed = <<>>
         /\ tasks[k].pc = "awaiting" =>
              tasks[k].pending =
                IF tasks[k].envLog[Len(tasks[k].envLog)] = "ok"
                  THEN "true" ELSE "false"

C12_Witness ==
  \E k \in 1..N :
    /\ Done(k)
    /\ configs[k].onError # "none"
    /\ Len(tasks[k].envLog) >= 2
    /\ tasks[k].envLog[1] = "fault"
    /\ tasks[k].logged >= 1

\* C13: when the element is found, a readText config returns true and leaves
\* the value of its element and of every other element unchanged, and an
\* input config with no value given sets the value of its element to the
\* empty string and returns true.
C13_ReadTextKeepsInputDefaultClears ==
  \A k \in 1..N :
    (/\ N = 1
     /\ tasks[k].envLog # <<>>
     /\ tasks[k].envLog[Len(tasks[k].envLog)] = "ok") =>
      /\ tasks[k].pc = "awaiting" => tasks[k].pending = "true"
      /\ Done(k) => tasks[k].pc = "fulfilled" /\ tasks[k].result = TRUE
      /\ configs[k].type = "readText" =>
           dom = [s \in Selectors |-> InitialValue]
      /\ (configs[k].type = "input" /\ configs[k].value = "") =>
           dom = [s \in Selectors |->
                    IF s = configs[k].selector THEN "" ELSE InitialValue]

C13_Witness ==
  \E k \in 1..N :
    /\ N = 1
    /\ configs[k].type = "input" /\ configs[k].value = ""
    /\ Done(k) /\ tasks[k].result = TRUE
    /\ dom[configs[k].selector] = ""

\* C16: for every finite batch with finite retries and delays, under fair
\* scheduling every config's retry loop eventually completes (success or
\* exhaustion) and performActionsByConfigs eventually returns; the failure or
\* exhaustion of one config never stops or shortens the loop of another.
C16_EveryLoopCompletesAndBatchReturns ==
  <>[](/\ batch = "fulfilled"
       /\ \A k \in 1..N :
            /\ tasks[k].pc = "fulfilled"
            /\ tasks[k].result \/ tasks[k].builds = configs[k].retries + 1)

\* C17: onError does not influence control flow: for the same config and the
\* same behaviour of the element, the number of attempts and the boolean
\* outcome are those of the run without onError, whether onError is absent,
\* returns, or itself throws.
C17_ObserverDoesNotChangeOutcome ==
  \A k \in 1..N :
    Done(k) =>
      LET succeeded == \E j \in DOMAIN tasks[k].envLog :
                         tasks[k].envLog[j] = "ok"
      IN  /\ tasks[k].pc = "fulfilled"
          /\ tasks[k].result = succeeded
          /\ ~succeeded => tasks[k].builds = configs[k].retries + 1

\* C20: in a batch where every config has waitBefore = 0, the first attempt
\* of config i is carried out before the first attempt of config j for all
\* i < j, so two input configs on the same found element that both succeed on
\* their first attempt always leave the value of the later config.
C20_FirstAttemptsInInputOrder ==
  (\A k \in 1..N : configs[k].waitBefore = 0) =>
    \A i \in 1..N : \A j \in 1..N :
      i < j =>
        /\ tasks[j].builds > 0 => tasks[i].builds > 0
        /\ tasks[j].builds = 0 => tasks[i].builds <= 1
        /\ (/\ configs[i].type = "input" /\ configs[j].type = "input"
            /\ configs[i].selector = configs[j].selector
            /\ \A m \in 1..N \ {i, j} :
                 ~(configs[m].type = "input"
                     /\ configs[m].selector = configs[i].selector)
            /\ tasks[i].envLog # <<>> /\ tasks[i].envLog[1] = "ok"
            /\ tasks[j].envLog # <<>> /\ tasks[j].envLog[1] = "ok") =>
             dom[configs[j].selector] = configs[j].value

C20_Witness ==
  /\ N = 2
  /\ \A k \in 1..N : configs[k].waitBefore = 0
  /\ configs[1].type = "input" /\ configs[2].type = "input"
  /\ configs[1].selector = configs[2].selector
  /\ configs[1].value # configs[2].value
  /\ tasks[1].envLog = <<"ok">> /\ tasks[2].envLog = <<"ok">>
  /\ Done(1) /\ Done(2)
  /\ dom[configs[2].selector] = configs[2].value
\* C14: in a VisualRecorder, the first click event observed after recording
\* starts appends no config to the recorded list, every later click observed
\* while recording appends exactly one click config, and input and focus
\* events append one config each whether or not a click has been seen.
C14_FirstClickDiscardedOthersAppendOne ==
  [][\A target \in Targets :
       /\ (session.recording /\ DispatchEvent("click", target)) =>
            recorder'.recordedConfig =
              IF session.clicks = 0
                THEN recorder.recordedConfig
                ELSE Append(recorder.recordedConfig,
                            ClickConfig(getElementSelector(target)))
       /\ (session.recording /\ DispatchEvent("input", target)) =>
            recorder'.recordedConfig =
              Append(recorder.recordedConfig,
                     InputConfig(getElementSelector(target), target.value))
       /\ (session.recording /\ DispatchEvent("focus", target)) =>
            recorder'.recordedConfig =
              Append(recorder.recordedConfig,
                     FocusConfig(getElementSelector(target)))]_vars

\* C15: every config in the list getRecordedConfig returns, after any
\* sequence of start, stop and click, input and focus events, has
\* waitBefore = 200, retries = 2 and a type among click, input and focus.
C15_RecordedDefaults ==
  \A j \in DOMAIN getRecordedConfig :
    /\ getRecordedConfig[j].waitBefore = 200
    /\ getRecordedConfig[j].retries = 2
    /\ getRecordedConfig[j].type \in {"click", "input", "focus"}

C15_Witness ==
  /\ session.stopped
  /\ \A e \in {"click", "input", "focus"} :
       \E j \in DOMAIN getRecordedConfig : getRecordedConfig[j].type = e

\* C18: the armed state is entered on every startRecording: after any
\* stopRecording followed by a new startRecording on the same recorder, the
\* first click of the new session is again discarded without a config.
C18_RearmedOnEveryStart ==
  [][/\ (session.stopped /\ StartRecording) => recorder'.isFirstClick
     /\ \A target \in Targets :
          (/\ session.stopped /\ session.recording /\ session.clicks = 0
           /\ recorder.listeners["click"] = 1
           /\ DispatchEvent("click", target)) =>
            recorder'.recordedConfig = recorder.recordedConfig]_vars

\* C19: after stopRecording returns, no click, input or focus event appends
\* a config to the recorded list until startRecording is called again, after
\* any sequence of startRecording and stopRecording calls, including
\* startRecording called twice with no stopRecording in between.
C19_NothingRecordedAfterStop ==
  [][~session.recording =>
       recorder'.recordedConfig = recorder.recordedConfig]_vars

====
